---- MODULE Spec2Model ----
(***************************************************************************)
(* A model of the wayfinding backend (src/server.py): the locations        *)
(* collection and its five handlers, the admin_settings collection with    *)
(* its startup seeding and PIN check, and the uploads directory.           *)
(*                                                                         *)
(* A handler that awaits the store once is one action.  A handler that     *)
(* awaits it several times (update_location, initialize_admin,             *)
(* upload_file) is one action per await, so that other requests interleave *)
(* exactly where the event loop lets them.                                 *)
(***************************************************************************)
EXTENDS Integers, Sequences, FiniteSets, TLC

VARIABLES
    locations,       \* db.locations: the documents, in insertion order
    admin_settings,  \* db.admin_settings: the documents, in insertion order
    uploads,         \* UPLOADS_DIR: the regular files, name -> bytes
    uuids,           \* how many uuid4() values have been drawn so far
    req              \* per worker slot: the request in flight or last answered

vars == <<locations, admin_settings, uploads, uuids, req>>

(***************************************************************************)
(* Bounds of the model.                                                    *)
(***************************************************************************)
NumProcs == 2        \* request slots (requests that can be in flight at once)
MaxUuids == 2        \* uuid4() draws in one behaviour

Procs == 1..NumProcs

(***************************************************************************)
(* Python / JSON values.  Every value carries its type, so that None, a    *)
(* str and a dict are three different things, as isinstance sees them.     *)
(***************************************************************************)
None == [t |-> "None"]
Str(s) == [t |-> "str", v |-> s]
Dict(d) == [t |-> "dict", v |-> d]
DateTime(sec, us) == [t |-> "datetime", sec |-> sec, us |-> us]

IsStr(v) == v.t = "str"
IsDict(v) == v.t = "dict"

\* datetime.isoformat(): the fraction is written only when microsecond # 0.
\* The text is modelled by its parts: <<seconds>> or <<seconds, microseconds>>.
IsoFormat(dt) ==
    IF dt.us = 0 THEN Str(<<dt.sec>>) ELSE Str(<<dt.sec, dt.us>>)

\* A parse that drops the fraction of the second.
FromIsoFormatWholeSeconds(s) == DateTime(s.v[1], 0)

\* datetime.fromisoformat(): a text without fraction has microsecond 0.
FromIsoFormat(s) ==
    DateTime(s.v[1], IF Len(s.v) = 1 THEN 0 ELSE s.v[2])

(***************************************************************************)
(* What the clients send and what the clock shows.                         *)
(***************************************************************************)
Fields == {"name", "description", "coordinates", "icon_url"}

\* A key the JSON body does not have.
Absent == [t |-> "absent"]

CoordsA == Dict([x |-> 10, y |-> 0, z |-> 15])
CoordsB == Dict([x |-> 1, y |-> 2, z |-> 3, floor |-> 2])

\* The values a request body may give each key; Absent: the body has no such
\* key.  A dict for name and a str for coordinates are the wrong shapes.
BodyValues(k) ==
    CASE k = "name" -> {Absent, None, Str(""), Str("A"), CoordsA}
      [] k = "description" -> {Absent, None, Str("d")}
      [] k = "coordinates" -> {Absent, None, CoordsA, CoordsB, Str("A")}
      [] k = "icon_url" -> {Absent, None, Str("u")}

\* Every JSON object over Fields.
Bodies ==
    {b \in [Fields -> UNION {BodyValues(k) : k \in Fields}] :
        \A k \in Fields : b[k] \in BodyValues(k)}

\* datetime.now(timezone.utc) at the n-th creation: the clock moves on between
\* creations, and its readings fall on a whole second or off it.
now(n) == DateTime(n, IF n % 2 = 1 THEN 0 ELSE 5)

\* str(uuid.uuid4()): the text of the n-th draw.  Draws never repeat.
uuid4(n) == ToString(n)

\* The ids a client may put in a path: every id the server can hand out, and
\* one it never hands out.
Ids == {Str(uuid4(n)) : n \in 1..MaxUuids} \cup {Str("unknown")}

(***************************************************************************)
(* The request models (pydantic) and the stored documents.                 *)
(***************************************************************************)
\* Optional[str] / Optional[dict]: the key absent, null, or of the type.
OptionalStr(b, k) == b[k] = Absent \/ b[k] = None \/ IsStr(b[k])
OptionalDict(b, k) == b[k] = Absent \/ b[k] = None \/ IsDict(b[k])

\* A LocationCreate whose coordinates are Optional.
LocationCreateLax(b) ==
    /\ IsStr(b["name"])
    /\ b["coordinates"] = Absent \/ b["coordinates"] = None
          \/ IsDict(b["coordinates"])
    /\ b["description"] = Absent \/ b["description"] = None
          \/ IsStr(b["description"])
    /\ b["icon_url"] = Absent \/ b["icon_url"] = None \/ IsStr(b["icon_url"])

\* LocationCreate accepts the body: name: str and coordinates: dict are
\* required, description and icon_url are Optional[str].
LocationCreate(b) ==
    /\ IsStr(b["name"])
    /\ IsDict(b["coordinates"])
    /\ OptionalStr(b, "description")
    /\ OptionalStr(b, "icon_url")

\* LocationUpdate accepts the body: every field is Optional.
LocationUpdate(b) ==
    /\ OptionalStr(b, "name")
    /\ OptionalStr(b, "description")
    /\ OptionalDict(b, "coordinates")
    /\ OptionalStr(b, "icon_url")

\* The bodies the clients send to POST /locations: every body LocationCreate
\* accepts, and bodies it rejects: name or coordinates missing, null or of the
\* wrong shape (with nothing else wrong), or both missing.
CreateBodies ==
    {b \in Bodies :
        \/ LocationCreate(b)
        \/ /\ b["description"] = Absent /\ b["icon_url"] = Absent
           /\ \/ b["name"] = Str("A")
              \/ b["coordinates"] = CoordsA
              \/ (b["name"] = Absent /\ b["coordinates"] = Absent)}

\* The bodies the clients send to PUT /locations/{id}: every body
\* LocationUpdate accepts.
UpdateBodies == {b \in Bodies : LocationUpdate(b)}

\* model_dump() of either request model: every field, None where the body
\* gave none.
model_dump(b) == [k \in Fields |-> IF b[k] = Absent THEN None ELSE b[k]]

\* Location(**location_dict): the id and created_at come from the defaults.
Location(location_dict, id, created_at) ==
    [id |-> id,
     name |-> location_dict["name"],
     description |-> location_dict["description"],
     coordinates |-> location_dict["coordinates"],
     icon_url |-> location_dict["icon_url"],
     created_at |-> created_at]

\* The document create_location stores: created_at as ISO text.
LocationDoc(location_obj) ==
    [location_obj EXCEPT !.created_at = IsoFormat(@)]

\* What the three readers do to a document before returning it.
Rehydrate(doc) ==
    IF IsStr(doc.created_at)
    THEN [doc EXCEPT !.created_at = FromIsoFormat(@)]
    ELSE doc

\* An update_data that takes every field the body has, null or not.
UpdateDataOfPresent(b) ==
    [k \in {f \in Fields : b[f] # Absent} |-> b[k]]

\* update_data: the dumped fields that are not None.
UpdateData(b) ==
    LET dump == model_dump(b)
    IN  [k \in {f \in Fields : dump[f] # None} |-> dump[k]]

(***************************************************************************)
(* The document store (one collection is a sequence of documents).         *)
(***************************************************************************)
Matching(coll, key, val) == {i \in 1..Len(coll) : coll[i][key] = val}

First(S) == CHOOSE i \in S : \A j \in S : i <= j

\* find_one: the first matching document, or None.
find_one(coll, key, val) ==
    IF Matching(coll, key, val) = {} THEN None
    ELSE coll[First(Matching(coll, key, val))]

\* insert_one without a unique key: the document goes to the end.
insert_one(coll, doc) == Append(coll, doc)

\* An update that replaces the document by the key and the given fields.
update_one_replace(coll, key, val, set) ==
    [i \in 1..Len(coll) |->
        IF coll[i][key] = val
        THEN [f \in DOMAIN coll[i] |->
                 IF f \in DOMAIN set THEN set[f]
                 ELSE IF f = key THEN val ELSE None]
        ELSE coll[i]]

\* update_one with $set: the first matching document gets the given fields,
\* every other field of it stays; no match, no change (no upsert).
update_one(coll, key, val, set) ==
    IF Matching(coll, key, val) = {} THEN coll
    ELSE LET i == First(Matching(coll, key, val))
         IN  [coll EXCEPT ![i] =
                 [f \in DOMAIN coll[i] |->
                     IF f \in DOMAIN set THEN set[f] ELSE coll[i][f]]]

\* A delete that removes nothing.
delete_one_keeps(coll, key, val) == coll

\* delete_one: the first matching document goes.
delete_one(coll, key, val) ==
    IF Matching(coll, key, val) = {} THEN coll
    ELSE LET i == First(Matching(coll, key, val))
         IN  SubSeq(coll, 1, i - 1) \o SubSeq(coll, i + 1, Len(coll))

\* A count that does not look at the collection.
deleted_count_one(coll, key, val) == 1

deleted_count(coll, key, val) ==
    IF Matching(coll, key, val) = {} THEN 0 ELSE 1

\* find({}).to_list(length): the first `length` documents.
ListCap == 1000
to_list(coll, length) ==
    SubSeq(coll, 1, IF Len(coll) < length THEN Len(coll) ELSE length)

(***************************************************************************)
(* Request slots.                                                          *)
(***************************************************************************)
Idle == [pc |-> "idle"]

\* A slot can take a new request when it has none in flight.
Free(p) == req[p].pc \in {"idle", "done"}

\* An answered request: the operation, its path argument, the status and
\* the body (a record, a list, or the detail text of an error).
Done(op, arg, status, out) ==
    [pc |-> "done", op |-> op, arg |-> arg, status |-> status, out |-> out]

NotFound == Str("Location not found")
Success(message) == [success |-> TRUE, message |-> message]

(***************************************************************************)
(* Location endpoints.                                                     *)
(***************************************************************************)
\* GET /locations
get_locations(p) ==
    /\ Free(p)
    /\ LET found == to_list(locations, ListCap)
       IN  req' = [req EXCEPT ![p] =
                Done("list", None, 200,
                     [i \in 1..Len(found) |-> Rehydrate(found[i])])]
    /\ UNCHANGED <<locations, admin_settings, uploads, uuids>>

\* GET /locations/{location_id}
get_location(p, location_id) ==
    /\ Free(p)
    /\ LET location == find_one(locations, "id", location_id)
       IN  req' = [req EXCEPT ![p] =
                IF location = None
                THEN Done("get", location_id, 404, NotFound)
                ELSE Done("get", location_id, 200, Rehydrate(location))]
    /\ UNCHANGED <<locations, admin_settings, uploads, uuids>>

\* POST /locations with a body LocationCreate accepts.  The answered slot
\* keeps the body the request came with.
create_location(p, body) ==
    /\ Free(p)
    /\ LocationCreate(body)
    /\ uuids < MaxUuids
    /\ LET location_obj ==
           Location(model_dump(body), Str(uuid4(uuids + 1)), now(uuids + 1))
       IN  /\ locations' = insert_one(locations, LocationDoc(location_obj))
           /\ req' = [req EXCEPT ![p] =
                  [pc |-> "done", op |-> "create", arg |-> None,
                   body |-> body, status |-> 201, out |-> location_obj]]
    /\ uuids' = uuids + 1
    /\ UNCHANGED <<admin_settings, uploads>>

\* POST /locations with a body LocationCreate rejects: the handler never runs
\* and the request is answered 422.
create_location_invalid(p, body) ==
    /\ Free(p)
    /\ ~LocationCreate(body)
    /\ req' = [req EXCEPT ![p] =
           [pc |-> "done", op |-> "create", arg |-> None, body |-> body,
            status |-> 422, out |-> Str("validation error")]]
    /\ UNCHANGED <<locations, admin_settings, uploads, uuids>>

\* PUT /locations/{location_id} with a body LocationUpdate accepts (any other
\* body never reaches the handler), up to the first await's result:
\* existing = find_one(...); 404 if there is none; update_data is built.
\* The slot keeps the body the request came with next to the handler's locals.
update_location_find(p, location_id, body) ==
    /\ Free(p)
    /\ LocationUpdate(body)
    /\ LET existing == find_one(locations, "id", location_id)
       IN  req' = [req EXCEPT ![p] =
                IF existing = None
                THEN Done("update", location_id, 404, NotFound)
                ELSE [pc |-> IF DOMAIN UpdateData(body) # {}
                             THEN "update_one" ELSE "find_updated",
                      op |-> "update", arg |-> location_id, body |-> body,
                      update_data |-> UpdateData(body),
                      existing |-> existing]]
    /\ UNCHANGED <<locations, admin_settings, uploads, uuids>>

\* ... the second await: update_one({"id": location_id}, {"$set": update_data})
update_location_set(p) ==
    /\ req[p].pc = "update_one"
    /\ locations' = update_one(locations, "id", req[p].arg, req[p].update_data)
    /\ req' = [req EXCEPT ![p].pc = "find_updated"]
    /\ UNCHANGED <<admin_settings, uploads, uuids>>

\* ... the third await: updated = find_one(...); updated.get(...) raises
\* AttributeError when updated is None, which the server answers with 500.
update_location_return(p) ==
    /\ req[p].pc = "find_updated"
    /\ LET updated == find_one(locations, "id", req[p].arg)
       IN  req' = [req EXCEPT ![p] =
                IF updated = None
                THEN Done("update", req[p].arg, 500,
                          Str("Internal Server Error"))
                ELSE Done("update", req[p].arg, 200, Rehydrate(updated))]
    /\ UNCHANGED <<locations, admin_settings, uploads, uuids>>

\* DELETE /locations/{location_id}
delete_location(p, location_id) ==
    /\ Free(p)
    /\ locations' = delete_one(locations, "id", location_id)
    /\ req' = [req EXCEPT ![p] =
           IF deleted_count(locations, "id", location_id) = 0
           THEN Done("delete", location_id, 404, NotFound)
           ELSE Done("delete", location_id, 200, Success("Location deleted"))]
    /\ UNCHANGED <<admin_settings, uploads, uuids>>

(***************************************************************************)
(* Admin settings.                                                         *)
(***************************************************************************)
AdminKey == Str("admin")
DefaultPin == Str("1234")

\* The document initialize_admin inserts.
AdminSeed == [_id |-> AdminKey, pin |-> DefaultPin]

\* The PINs a client may try.
Pins == {Str("1234"), Str("0000"), Str("")}

\* The admin_settings collections a process may find at startup: none yet,
\* the seeded one, one whose pin was changed by hand, one without a pin.
AdminStores ==
    {<<>>, <<AdminSeed>>, <<[_id |-> AdminKey, pin |-> Str("0000")]>>,
     <<[_id |-> AdminKey]>>}

\* A get with the empty text as its default.
get_or_empty(doc, key) == IF key \in DOMAIN doc THEN doc[key] ELSE Str("")

\* dict.get(key): None when the key is missing.
get(doc, key) == IF key \in DOMAIN doc THEN doc[key] ELSE None

\* A store that takes any document (the seed carries no fixed _id).
DuplicateKeyIgnored(coll, doc) == FALSE

\* insert_one of a document with an _id: the store refuses a second document
\* with the same _id (DuplicateKeyError) and then changes nothing.
DuplicateKey(coll, doc) == Matching(coll, "_id", doc["_id"]) # {}

\* Startup hook, first await: existing = find_one({"_id": "admin"})
initialize_admin_find(p) ==
    /\ Free(p)
    /\ LET existing == find_one(admin_settings, "_id", AdminKey)
       IN  req' = [req EXCEPT ![p] =
                IF existing = None
                THEN [pc |-> "insert_one", op |-> "initialize"]
                ELSE Done("initialize", None, 0, Str("already exist"))]
    /\ UNCHANGED <<locations, admin_settings, uploads, uuids>>

\* Startup hook, second await: insert_one(seed); an exception is logged and
\* swallowed.
initialize_admin_insert(p) ==
    /\ req[p].pc = "insert_one"
    /\ IF DuplicateKey(admin_settings, AdminSeed)
       THEN /\ admin_settings' = admin_settings
            /\ req' = [req EXCEPT ![p] =
                   Done("initialize", None, 0, Str("error"))]
       ELSE /\ admin_settings' = insert_one(admin_settings, AdminSeed)
            /\ req' = [req EXCEPT ![p] =
                   Done("initialize", None, 0, Str("initialized"))]
    /\ UNCHANGED <<locations, uploads, uuids>>

\* POST /admin/verify-pin
verify_admin_pin(p, pin) ==
    /\ Free(p)
    /\ LET settings == find_one(admin_settings, "_id", AdminKey)
       IN  req' = [req EXCEPT ![p] =
                IF settings # None /\ get(settings, "pin") = pin
                THEN Done("verify", pin, 200, Success("PIN verified"))
                ELSE Done("verify", pin, 401, Str("Invalid PIN"))]
    /\ UNCHANGED <<locations, admin_settings, uploads, uuids>>

(***************************************************************************)
(* Uploads.  A file name is the sequence of its characters; the text of a  *)
(* uuid counts as one character.                                           *)
(***************************************************************************)
RECURSIVE LastSlash(_, _)
\* The position of the last "/" among the first n characters, or 0.
LastSlash(f, n) ==
    IF n = 0 THEN 0
    ELSE IF f[n] = "/" THEN n ELSE LastSlash(f, n - 1)

RECURSIVE RFind(_, _, _)
\* str.rfind(c) among the first n characters: the last position, or 0.
RFind(f, c, n) ==
    IF n = 0 THEN 0
    ELSE IF f[n] = c THEN n ELSE RFind(f, c, n - 1)

RECURSIVE PathName(_)
\* PurePath(filename).name: the last component; trailing "/" and "." do not
\* count as components.
PathName(f) ==
    LET n == Len(f)
        s == LastSlash(f, n)
        last == SubSeq(f, s + 1, n)
    IN  IF n = 0 THEN <<>>
        ELSE IF last = <<>> \/ last = <<".">>
             THEN IF s = 0 THEN <<>> ELSE PathName(SubSeq(f, 1, s - 1))
             ELSE last

\* PurePath(filename).suffix: from the last "." of the name, when that dot is
\* neither the first nor the last character of the name.
suffix(filename) ==
    LET name == PathName(filename)
        i == RFind(name, ".", Len(name))
    IN  IF 1 < i /\ i < Len(name) THEN SubSeq(name, i, Len(name)) ELSE <<>>

\* The original file names and payloads a client may upload.
Filenames ==
    {<<"a">>, <<"a", ".", "p">>, <<".", "p">>, <<"a", ".">>,
     <<"a", ".", "t", ".", "g">>, <<"a", ".", "p", "/", "b">>}
Contents == {<<1>>, <<1, 2>>}

\* The names a client may ask for: what an upload can have been stored as,
\* and names no upload is ever stored as.
FetchNames ==
    {<<uuid4(n)>> \o suffix(f) : n \in 1..MaxUuids, f \in Filenames}
        \cup {<<"a", ".", "p">>, <<".">>, <<".", ".">>}

\* Path.exists(): a regular file of the directory, or a directory: "." is
\* UPLOADS_DIR itself and ".." is its parent.
IsFile(filename) == filename \in DOMAIN uploads
IsDir(filename) == filename \in {<<".">>, <<".", ".">>}
exists(filename) == IsFile(filename) \/ IsDir(filename)

Prefixes(content) == {SubSeq(content, 1, n) : n \in 0..Len(content)}

\* POST /upload, up to aiofiles.open(file_path, 'wb'): the file is created
\* empty; if the open fails, the handler answers 500.
upload_file_open(p, filename, content, opened) ==
    /\ Free(p)
    /\ uuids < MaxUuids
    /\ uuids' = uuids + 1
    /\ LET unique_filename == <<uuid4(uuids + 1)>> \o suffix(filename)
       IN  IF opened
           THEN /\ uploads' = (unique_filename :> <<>>) @@ uploads
                /\ req' = [req EXCEPT ![p] =
                       [pc |-> "write", op |-> "upload", arg |-> filename,
                        unique_filename |-> unique_filename,
                        content |-> content]]
           ELSE /\ uploads' = uploads
                /\ req' = [req EXCEPT ![p] =
                       Done("upload", filename, 500, Str("OSError"))]
    /\ UNCHANGED <<locations, admin_settings>>

\* ... f.write(content) and the close: `written` is what reached the file;
\* all of it and the handler answers 200 with the URL, less and it answers 500.
upload_file_write(p, written) ==
    /\ req[p].pc = "write"
    /\ written \in Prefixes(req[p].content)
    /\ uploads' = (req[p].unique_filename :> written) @@ uploads
    /\ req' = [req EXCEPT ![p] =
           IF written = req[p].content
           THEN [pc |-> "done", op |-> "upload", arg |-> req[p].arg,
                 content |-> req[p].content, status |-> 200,
                 out |-> [success |-> TRUE,
                          url |-> <<"/api/uploads/">>
                                      \o req[p].unique_filename]]
           ELSE [pc |-> "done", op |-> "upload", arg |-> req[p].arg,
                 content |-> req[p].content, status |-> 500,
                 out |-> Str("OSError")]]
    /\ UNCHANGED <<locations, admin_settings, uuids>>

\* GET /uploads/{filename}: 404 unless the path exists; FileResponse sends a
\* regular file and raises RuntimeError (500) for anything else.
get_uploaded_file(p, filename) ==
    /\ Free(p)
    /\ req' = [req EXCEPT ![p] =
           IF ~exists(filename)
           THEN Done("fetch", filename, 404, Str("File not found"))
           ELSE IF IsFile(filename)
                THEN Done("fetch", filename, 200, uploads[filename])
                ELSE Done("fetch", filename, 500,
                          Str("Internal Server Error"))]
    /\ UNCHANGED <<locations, admin_settings, uploads, uuids>>

(***************************************************************************)
(* The system.                                                             *)
(***************************************************************************)
Init ==
    /\ locations = <<>>
    /\ admin_settings \in AdminStores
    /\ uploads = <<>>
    /\ uuids = 0
    /\ req = [p \in Procs |-> Idle]

LocationsNext(p) ==
    \/ get_locations(p)
    \/ \E id \in Ids : get_location(p, id)
    \/ \E body \in CreateBodies : create_location(p, body)
    \/ \E body \in CreateBodies : create_location_invalid(p, body)
    \/ \E id \in Ids, body \in UpdateBodies : update_location_find(p, id, body)
    \/ update_location_set(p)
    \/ update_location_return(p)
    \/ \E id \in Ids : delete_location(p, id)

AdminNext(p) ==
    \/ initialize_admin_find(p)
    \/ initialize_admin_insert(p)
    \/ \E pin \in Pins : verify_admin_pin(p, pin)

UploadsNext(p) ==
    \/ \E f \in Filenames, c \in Contents, opened \in BOOLEAN :
          upload_file_open(p, f, c, opened)
    \/ \E w \in UNION {Prefixes(c) : c \in Contents} : upload_file_write(p, w)
    \/ \E f \in FetchNames : get_uploaded_file(p, f)

Next == \E p \in Procs : LocationsNext(p) \/ AdminNext(p) \/ UploadsNext(p)

Spec == Init /\ [][Next]_vars

\* The admin gate alone, with startups and PIN checks interleaving freely.
AdminSpec == Init /\ [][\E p \in Procs : AdminNext(p)]_vars

\* The upload relay alone, with uploads and fetches interleaving freely.
UploadsInit == Init /\ admin_settings = <<AdminSeed>>
UploadsSpec == UploadsInit /\ [][\E p \in Procs : UploadsNext(p)]_vars

\* The location store behind one worker slot: one request at a time.
Worker == CHOOSE p \in Procs : \A q \in Procs : p <= q
LocationsInit == Init /\ admin_settings = <<AdminSeed>>
LocationsSpec == LocationsInit /\ [][LocationsNext(Worker)]_vars

\* Concurrent writers of one Location: the store holds one Location, and
\* every slot serves one Update or Delete; the requests interleave freely.
\* The Updates give a name, a description, both or nothing.
RaceDocs ==
    {LocationDoc(Location(model_dump(b), Str(uuid4(1)), now(1))) :
        b \in {c \in CreateBodies :
                  /\ LocationCreate(c)
                  /\ c["coordinates"] = CoordsA
                  /\ c["icon_url"] = Absent}}

RaceBodies ==
    {b \in UpdateBodies :
        /\ b["coordinates"] = Absent /\ b["icon_url"] = Absent
        /\ b["name"] # None /\ b["description"] # None}

RaceInit ==
    /\ locations \in {<<doc>> : doc \in RaceDocs}
    /\ admin_settings = <<AdminSeed>>
    /\ uploads = <<>>
    /\ uuids = 1
    /\ req = [p \in Procs |-> Idle]

RaceNext(p) ==
    \/ /\ req[p].pc = "idle"
       /\ \E id \in Ids, body \in RaceBodies :
              update_location_find(p, id, body)
    \/ /\ req[p].pc = "idle"
       /\ \E id \in Ids : delete_location(p, id)
    \/ update_location_set(p)
    \/ update_location_return(p)

RaceSpec == RaceInit /\ [][\E p \in Procs : RaceNext(p)]_vars

(***************************************************************************)
(* Properties.                                                             *)
(***************************************************************************)
StoredIds == {locations[i].id : i \in 1..Len(locations)}

\* A body that lacks name or coordinates, or gives them the wrong shape.
LacksRequired(body) ==
    \/ body["name"] = Absent \/ body["name"].t # "str"
    \/ body["coordinates"] = Absent \/ body["coordinates"].t # "dict"

\* What a body supplies for an optional field: null when the key is absent.
Supplied(body, k) == IF body[k] = Absent THEN None ELSE body[k]

\* C1, first half: Create with a valid body answers 201 with an id no stored
\* Location has, and a record carrying the client's values.
CreateReturnsTheRecord(p) ==
    (Free(p) /\ req'[p] # req[p] /\ req'[p].op = "create"
     /\ ~LacksRequired(req'[p].body))
        => /\ req'[p].status = 201
           /\ req'[p].out.id \notin StoredIds
           /\ \A k \in Fields : req'[p].out[k] = Supplied(req'[p].body, k)

\* C1, second half: a Get on the id Create has just returned answers 200
\* with the record Create returned, id and created_at included.
GetReturnsTheCreated(p) ==
    (/\ req[p].pc = "done" /\ req[p].op = "create" /\ req[p].status = 201
     /\ get_location(p, req[p].out.id))
        => /\ req'[p].status = 200
           /\ req'[p].out = req[p].out

\* C1: Create returns 201 with a fresh id and the client's values, and a Get
\* on that id right after it returns 200 with the same record.
C1_CreateThenGet ==
    [][\A p \in Procs : CreateReturnsTheRecord(p) /\ GetReturnsTheCreated(p)]_vars

\* C1 witness: a Get answered 200 with a record that has a description, for a
\* Location created off a whole second.
C1_Witness ==
    \E p \in Procs :
        /\ req[p].pc = "done" /\ req[p].op = "get" /\ req[p].status = 200
        /\ req[p].out.description = Str("d")
        /\ req[p].out.icon_url = None
        /\ req[p].out.created_at.us # 0

\* The fields a body gives a value: present and not null.
Given(body) == {k \in Fields : body[k] # Absent /\ body[k] # None}

\* The slot p has just been given a new request (its first step).
Starts(p, op) == Free(p) /\ req'[p] # req[p] /\ req'[p].op = op

\* C2, the first step of Update on a stored id: nothing is written, and the
\* fields to set are exactly the given ones (none: the write is skipped).
UpdateCollectsTheGiven(p) ==
    (Starts(p, "update") /\ req'[p].pc # "done")
        => /\ locations' = locations
           /\ DOMAIN req'[p].update_data = Given(req'[p].body)
           /\ \A k \in Given(req'[p].body) :
                  req'[p].update_data[k] = req'[p].body[k]
           /\ req'[p].pc = IF Given(req'[p].body) = {}
                           THEN "find_updated" ELSE "update_one"

\* C2, the write: the record of that id gets the given fields and keeps every
\* other field; every other record stays as it is.
UpdateSetsOnlyTheGiven(p) ==
    (req[p].pc = "update_one" /\ req'[p].pc = "find_updated")
        => /\ Len(locations') = Len(locations)
           /\ \A i \in 1..Len(locations) :
                  IF locations[i].id = req[p].arg
                  THEN /\ DOMAIN locations'[i] = DOMAIN locations[i]
                       /\ \A f \in DOMAIN locations[i] :
                              locations'[i][f] =
                                  IF f \in Given(req[p].body)
                                  THEN req[p].body[f] ELSE locations[i][f]
                  ELSE locations'[i] = locations[i]

\* C2, the answer: 200 with the record as it now is, which is the record read
\* at the start with the given fields set.
UpdateReturnsTheCurrent(p) ==
    (req[p].pc = "find_updated" /\ req'[p].pc = "done")
        => /\ locations' = locations
           /\ req'[p].status = 200
           /\ req'[p].out.id = req[p].arg
           /\ \E i \in 1..Len(locations) :
                  /\ locations[i].id = req[p].arg
                  /\ \A f \in Fields : req'[p].out[f] = locations[i][f]
           /\ \A f \in DOMAIN req[p].existing :
                  req'[p].out[f] =
                      IF f \in Given(req[p].body) THEN req[p].body[f]
                      ELSE IF f = "created_at"
                           THEN FromIsoFormat(req[p].existing[f])
                           ELSE req[p].existing[f]

\* C2: with one request at a time, Update of a stored id sets exactly the
\* given (present, non-null) fields, leaves every other field and record, and
\* answers 200 with the current record; an empty body writes nothing.
C2_UpdateSetsOnlyGivenFields ==
    [][\A p \in Procs :
          /\ UpdateCollectsTheGiven(p)
          /\ UpdateSetsOnlyTheGiven(p)
          /\ UpdateReturnsTheCurrent(p)]_vars

\* C2 witness: an Update that gave only a description (name null, the rest
\* absent) has written, and a second record is in the store.
C2_Witness ==
    \E p \in Procs :
        /\ req[p].pc = "find_updated"
        /\ Given(req[p].body) = {"description"}
        /\ req[p].body["name"] = None
        /\ req[p].existing.description = None
        /\ req[p].existing.name = Str("A")
        /\ Len(locations) = 2

\* C2 witness for the empty body: answered 200 and the store as it was.
C2_WitnessEmpty ==
    \E p \in Procs :
        /\ req[p].pc = "find_updated"
        /\ Given(req[p].body) = {}
        /\ find_one(locations, "id", req[p].arg) = req[p].existing

\* C3: Get, Update and Delete of an id no stored Location has answer 404 and
\* leave the store as it is; Update ends there, so it inserts nothing.
C3_UnknownIdIs404 ==
    [][\A p \in Procs :
          ((Starts(p, "get") \/ Starts(p, "update") \/ Starts(p, "delete"))
           /\ req'[p].arg \notin StoredIds)
              => /\ req'[p].pc = "done"
                 /\ req'[p].status = 404
                 /\ req'[p].out = NotFound
                 /\ locations' = locations]_vars

\* C3 witness: an Update of an unknown id was answered 404 while a Location
\* is stored.
C3_Witness ==
    \E p \in Procs :
        /\ req[p].pc = "done" /\ req[p].op = "update" /\ req[p].status = 404
        /\ req[p].arg \notin StoredIds
        /\ Len(locations) > 0

\* The ids Create has handed out so far.
HandedOut == {Str(uuid4(n)) : n \in 1..uuids}

\* C4, the Delete itself: it answers 200 exactly when the id is stored, and
\* then that record is gone and every other record is as it was.
DeleteRemovesOnlyThat(p) ==
    (Starts(p, "delete") /\ req'[p].arg \in StoredIds)
        => /\ req'[p].status = 200
           /\ req'[p].arg \notin {locations'[i].id : i \in 1..Len(locations')}
           /\ Len(locations') = Len(locations) - 1
           /\ \A i \in 1..Len(locations) :
                  locations[i].id # req'[p].arg
                      => \E j \in 1..Len(locations') :
                             locations'[j] = locations[i]

\* C4, afterwards: an id that was handed out and is no longer stored is never
\* stored again, Get, Update and Delete of it answer 404, and a List answer
\* holds the stored ids only.
DeletedStaysDeleted(p) ==
    /\ \A id \in HandedOut :
           id \notin StoredIds
               => id \notin {locations'[i].id : i \in 1..Len(locations')}
    /\ ((Starts(p, "get") \/ Starts(p, "update") \/ Starts(p, "delete"))
        /\ req'[p].arg \in HandedOut \ StoredIds)
           => req'[p].pc = "done" /\ req'[p].status = 404
    /\ Starts(p, "list")
           => {req'[p].out[i].id : i \in 1..Len(req'[p].out)} = StoredIds

\* C4: Delete is a hard delete: the record is gone for good (no later Create,
\* Update or Delete brings the id back), List does not show it, and the other
\* Locations are untouched.
C4_DeleteIsHard ==
    [][\A p \in Procs : DeleteRemovesOnlyThat(p) /\ DeletedStaysDeleted(p)]_vars

\* C4 witness: a Get of a deleted id was answered 404 after the second Create,
\* while the other Location is stored.
C4_Witness ==
    \E p \in Procs :
        /\ req[p].pc = "done" /\ req[p].op = "get" /\ req[p].status = 404
        /\ req[p].arg \in HandedOut
        /\ uuids = 2
        /\ Len(locations) = 1

\* C6: a Create whose body lacks name or coordinates, or gives them the wrong
\* shape, answers 422 and leaves the store as it is.
C6_InvalidCreatePersistsNothing ==
    [][\A p \in Procs :
          (Starts(p, "create") /\ LacksRequired(req'[p].body))
              => /\ req'[p].status = 422
                 /\ locations' = locations
                 /\ uuids' = uuids]_vars

\* C6 witness: a Create without coordinates was answered 422 while a Location
\* is stored.
C6_Witness ==
    \E p \in Procs :
        /\ req[p].pc = "done" /\ req[p].op = "create" /\ req[p].status = 422
        /\ req[p].body["coordinates"] = Absent
        /\ req[p].body["name"] = Str("A")
        /\ Len(locations) = 1

\* C9 as claimed: every stored Location has a non-empty name.
C9_NamesAreNonEmpty ==
    \A i \in 1..Len(locations) : locations[i].name # Str("")

(***************************************************************************)
(* Admin gate properties.                                                  *)
(***************************************************************************)
\* An admin record with exactly this pin is stored.
AdminPinIs(pin) ==
    \E i \in 1..Len(admin_settings) :
        /\ admin_settings[i]["_id"] = AdminKey
        /\ "pin" \in DOMAIN admin_settings[i]
        /\ admin_settings[i]["pin"] = pin

\* C5: Verify PIN answers 200 exactly when an admin record with that very pin
\* is stored, and 401 "Invalid PIN" in every other case; it never changes the
\* admin record; and a record Initialize has just seeded accepts "1234".
C5_VerifyPin ==
    [][\A p \in Procs :
          /\ Starts(p, "verify")
                => /\ req'[p].status = 200 <=> AdminPinIs(req'[p].arg)
                   /\ req'[p].status # 200
                          => /\ req'[p].status = 401
                             /\ req'[p].out = Str("Invalid PIN")
                   /\ admin_settings' = admin_settings
          /\ (/\ req[p].pc = "done" /\ req[p].op = "initialize"
              /\ req[p].out = Str("initialized")
              /\ Starts(p, "verify") /\ req'[p].arg = Str("1234"))
                => req'[p].status = 200]_vars

\* C5 witness: on a store seeded by Initialize, "1234" was accepted.
C5_Witness ==
    \E p, q \in Procs :
        /\ req[q].pc = "done" /\ req[q].op = "initialize"
        /\ req[q].out = Str("initialized")
        /\ req[p].pc = "done" /\ req[p].op = "verify"
        /\ req[p].arg = Str("1234") /\ req[p].status = 200

\* C5 witness: the empty pin was refused on a record that has no pin.
C5_WitnessNoPin ==
    \E p \in Procs :
        /\ req[p].pc = "done" /\ req[p].op = "verify"
        /\ req[p].arg = Str("") /\ req[p].status = 401
        /\ Len(admin_settings) = 1
        /\ "pin" \notin DOMAIN admin_settings[1]

\* C7: there is never more than one admin record; the insert of Initialize on
\* a store without one creates the record with pin "1234"; a store that has
\* one is left as it is by every step (also by the insert of a startup that
\* saw no record when it looked); only that insert ever changes the store.
C7_OneAdminRecord ==
    [][/\ Len(admin_settings) <= 1 /\ Len(admin_settings') <= 1
       /\ admin_settings # <<>> => admin_settings' = admin_settings
       /\ admin_settings' # admin_settings
             => /\ admin_settings' = <<[_id |-> AdminKey, pin |-> Str("1234")]>>
                /\ \E p \in Procs :
                       /\ req[p].pc = "insert_one"
                       /\ req'[p].pc = "done"
                       /\ req'[p].out = Str("initialized")
       /\ \A p \in Procs :
             (req[p].pc = "insert_one" /\ req'[p].pc = "done"
              /\ admin_settings = <<>>)
                => admin_settings' # admin_settings]_vars

\* C7 witness: two startups both saw no record; one insert went through, the
\* other failed and was swallowed; one record is stored.
C7_Witness ==
    \E p, q \in Procs :
        /\ req[p].pc = "done" /\ req[p].op = "initialize"
        /\ req[p].out = Str("initialized")
        /\ req[q].pc = "done" /\ req[q].op = "initialize"
        /\ req[q].out = Str("error")
        /\ Len(admin_settings) = 1

\* C7 witness: a startup found a record with another pin and left it.
C7_WitnessOtherPin ==
    \E p \in Procs :
        /\ req[p].pc = "done" /\ req[p].op = "initialize"
        /\ req[p].out = Str("already exist")
        /\ AdminPinIs(Str("0000"))

(***************************************************************************)
(* Upload relay properties.                                                *)
(***************************************************************************)
\* C8 as claimed, last part: fetching a name no upload was stored under
\* answers 404.  (Files are never removed, so a name that is no file now
\* never was one.)
C8_UnstoredNameIs404 ==
    \A p \in Procs :
        (/\ req[p].pc = "done" /\ req[p].op = "fetch"
         /\ req[p].arg \notin DOMAIN uploads)
            => req[p].status = 404

\* The names of the uploads still being written.
BeingWritten == {req[p].unique_filename : p \in {q \in Procs : req[q].pc = "write"}}

\* The rest of C8, which the code keeps: an upload is stored under a name no
\* file has yet, made of a fresh uuid and the suffix of the original name; an
\* upload answered 200 left its whole payload under the name in its URL; a
\* file whose upload has ended is never changed again; and a fetch of a file
\* answers 200 with its bytes.
C8_UploadsAreKept ==
    [][\A p \in Procs :
          /\ (Starts(p, "upload") /\ req'[p].pc = "write")
                => /\ req'[p].unique_filename \notin DOMAIN uploads
                   /\ req'[p].unique_filename =
                          <<uuid4(uuids')>> \o suffix(req'[p].arg)
                   /\ \A n \in DOMAIN uploads : uploads'[n] = uploads[n]
          /\ (req[p].pc = "write" /\ req'[p].pc = "done"
              /\ req'[p].status = 200)
                => /\ req'[p].out.url =
                          <<"/api/uploads/">> \o req[p].unique_filename
                   /\ uploads'[req[p].unique_filename] = req[p].content
          /\ \A n \in DOMAIN uploads \ BeingWritten :
                n \in DOMAIN uploads' /\ uploads'[n] = uploads[n]
          /\ (Starts(p, "fetch") /\ req'[p].arg \in DOMAIN uploads)
                => /\ req'[p].status = 200
                   /\ req'[p].out = uploads[req'[p].arg]]_vars

(***************************************************************************)
(* Concurrent Updates.                                                     *)
(***************************************************************************)
\* The slots whose Update of this id has written and that gave the field.
Wrote(id, f) ==
    {p \in Procs :
        /\ req[p].pc = "find_updated" /\ req[p].arg = id
        /\ f \in Given(req[p].body)}

\* The slots with an Update of this id in flight.
Updating(id) ==
    {p \in Procs :
        req[p].pc \in {"update_one", "find_updated"} /\ req[p].arg = id}

\* While no request has been answered: a field some Updates have written holds
\* the value one of them gave, and a field none has written is as it was read.
FieldsComeFromTheirWriters ==
    (\A p \in Procs : req[p].pc # "done")
        => \A i \in 1..Len(locations), f \in Fields :
               LET id == locations[i].id
               IN  IF Wrote(id, f) # {}
                   THEN \E p \in Wrote(id, f) :
                            locations[i][f] = req[p].body[f]
                   ELSE \A p \in Updating(id) :
                            locations[i][f] = req[p].existing[f]

\* C10 as amended: the write of an Update sets just its given fields on the
\* record as stored at that moment, so concurrent Updates of different
\* fields both take effect, and concurrent Updates of the same field leave
\* the value one of them gave.
C10_ConcurrentUpdatesMergeByField ==
    [][(\A p \in Procs : UpdateSetsOnlyTheGiven(p))
          /\ FieldsComeFromTheirWriters']_vars

\* C10 witness: two Updates read the same record, one then wrote a new name
\* and the other a new description, and the record holds both.
C10_Witness ==
    \E p, q \in Procs :
        /\ req[p].pc = "find_updated" /\ req[q].pc = "find_updated"
        /\ req[p].arg = req[q].arg
        /\ req[p].existing = req[q].existing
        /\ Given(req[p].body) = {"name"}
        /\ Given(req[q].body) = {"description"}
        /\ req[p].body["name"] # req[p].existing.name
        /\ req[q].body["description"] # req[q].existing.description
        /\ \E i \in 1..Len(locations) :
               /\ locations[i].id = req[p].arg
               /\ locations[i].name = req[p].body["name"]
               /\ locations[i].description = req[q].body["description"]

\* C10 witness: two Updates of the name with different values have written.
C10_WitnessSameField ==
    \E p, q \in Procs :
        /\ req[p].pc = "find_updated" /\ req[q].pc = "find_updated"
        /\ req[p].arg = req[q].arg
        /\ "name" \in Given(req[p].body) /\ "name" \in Given(req[q].body)
        /\ req[p].body["name"] # req[q].body["name"]

\* C10 as claimed: the write of an Update replaces the whole document by the
\* record read at its start with the given fields merged in (so that it
\* undoes what a concurrent Update wrote in between).
C10_WriteReplacesWholeDocument ==
    [][\A p \in Procs :
          (/\ req[p].pc = "update_one" /\ req'[p].pc = "find_updated"
           /\ req[p].arg \in StoredIds)
              => find_one(locations', "id", req[p].arg) =
                     [f \in DOMAIN req[p].existing |->
                         IF f \in Given(req[p].body)
                         THEN req[p].body[f] ELSE req[p].existing[f]]]_vars

\* C11 as claimed: under every interleaving of an Update with concurrent
\* Deletes of the same id, an answered Update ended with 404 NotFound or with
\* 200 and a Location record of that id, never with an internal failure.
C11_UpdateEndsWith404Or200 ==
    \A p \in Procs :
        (req[p].pc = "done" /\ req[p].op = "update")
            => \/ req[p].status = 404 /\ req[p].out = NotFound
               \/ req[p].status = 200 /\ req[p].out.id = req[p].arg

====
